---- MODULE Spec2Model ----
(***************************************************************************)
(* State-machine model of the prerelease dashboard in its two variants:    *)
(*   "paginated"  src/unnamed/part_000  (grace window, paginated fetch,    *)
(*                sort, colour filter, selection)                          *)
(*   "single"     src/src/App.jsx       (future-only resolution, one card  *)
(*                request, search only)                                    *)
(*                                                                         *)
(* Instants of the application clock are whole seconds (the code's         *)
(* millisecond values divided by MsPerSec): 60 days of milliseconds do not *)
(* fit TLC's 32-bit integers.  The countdown arithmetic itself is          *)
(* modelled on millisecond differences (Countdown), and SpecTick feeds it  *)
(* millisecond inputs directly.                                            *)
(*                                                                         *)
(* A JS object is a record; a field the object does not carry is a field   *)
(* the record does not have (Has).  null is the record Null; the empty     *)
(* sequence stands for JS null where the value is a request target.        *)
(***************************************************************************)
EXTENDS Integers, Sequences, FiniteSets, TLC

VARIABLES
    variant,          \* which build runs: "paginated" or "single"
    pc,               \* position of the async fetchData
    loading,          \* useState(true)
    currentSet,       \* useState(null)
    cards,            \* useState([])
    searchTerm,       \* useState("")
    timeLeft,         \* useState({d:0,h:0,m:0,s:0})
    selectedCards,    \* useState(new Set())
    activeFilter,     \* useState(null)
    allFetchedCards,  \* local accumulator of fetchData
    nextUri,          \* local continuation reference of fetchData
    now,              \* the wall clock, in seconds
    catalog,          \* what the releases endpoint returns
    serverPages,      \* the pages the card search splits the release into
    requests,         \* history: the card page requests issued, in order
    served,           \* history: the card page responses received, in order
    inFlight,         \* number of card page requests awaiting a response
    gathered,         \* history: the accumulator when the page loop ended
    resolvedAt,       \* history: the value of `now` read by fetchData
    failure,          \* history: which request failed, "none" if none
    timers,           \* number of live interval timers
    timerTarget,      \* prereleaseDate captured by the live timer
    timerSince,       \* the instant the live timer was started
    effectDep,        \* the currentSet the countdown effect last ran for
    tickDiff,         \* history: the difference the last tick computed
    lastEvent,        \* history: the last UI event
    eventSeq,         \* history: parity of the number of UI events so far
    selBefore,        \* history: selectedCards before the last UI event
    cardWrites,       \* history: number of setCards calls so far
    mounted,          \* the component is mounted
    isDark            \* useState(saved theme, dark by default)

vars == <<variant, pc, loading, currentSet, cards, searchTerm, timeLeft,
          selectedCards, activeFilter, allFetchedCards, nextUri, now, catalog,
          serverPages, requests, served, inFlight, gathered, resolvedAt, failure, timers,
          timerTarget, timerSince, effectDep, tickDiff, lastEvent, eventSeq,
          selBefore, cardWrites, mounted, isDark>>

----------------------------------------------------------------------------
(* Bounds of the model *)

\* longest release (number of cards) the card search serves
MaxCards == 3
\* largest number of pages the card search splits a release into
MaxPages == 3
\* longest catalog the releases endpoint returns (SpecResolve)
MaxCatalog == 3

----------------------------------------------------------------------------
(* JS values *)

Null == [null |-> TRUE]

Has(obj, field) == field \in DOMAIN obj

NoEvent == [op |-> "none"]

Range(s) == {s[i] : i \in 1..Len(s)}

RECURSIVE Concat(_)
Concat(ss) ==
    IF ss = <<>> THEN <<>> ELSE Head(ss) \o Concat(Tail(ss))

\* Math.floor(x / y) for y > 0
Floor(x, y) == x \div y

----------------------------------------------------------------------------
(* Time *)

MsPerSec == 1000
SecPerDay == 60 * 60 * 24
MsPerDay == 1000 * 60 * 60 * 24

\* part_000:88  1000 * 60 * 60 * 24 * 60 milliseconds, in clock seconds
GraceWindow == 60 * 60 * 24 * 60

\* prereleaseDate.setDate(release.getDate() - 7), in clock seconds
PrereleaseOffset == 7 * SecPerDay

\* new Date(x): a valid instant, or Invalid Date (time NaN)
InvalidDate == [valid |-> FALSE]

DateOfTime(t) == [valid |-> TRUE, time |-> t]

\* new Date(s.released_at): a release without a parsable date gives Invalid Date
NewDate(s) ==
    IF Has(s, "released_at") THEN DateOfTime(s.released_at) ELSE InvalidDate

\* a > b, a >= b on Dates: any comparison with NaN is false
DateGt(a, b) == a.valid /\ b.valid /\ a.time > b.time

DateGe(a, b) == a.valid /\ b.valid /\ a.time >= b.time

----------------------------------------------------------------------------
(* SetResolver: part_000:85-95 and App.jsx:45-47 *)

\* (a, b) => new Date(a.released_at) - new Date(b.released_at), on valid dates
CompareDates(a, b) == NewDate(a).time - NewDate(b).time

\* One step of a stable sort by CompareDates: x goes before the first element
\* that compares greater than it (Array.prototype.sort is stable).
InsertByDate(sorted, x) ==
    LET later == {i \in 1..Len(sorted) : CompareDates(sorted[i], x) > 0}
        at == IF later = {} THEN Len(sorted) + 1
              ELSE CHOOSE i \in later : \A j \in later : i <= j
    IN  SubSeq(sorted, 1, at - 1) \o <<x>> \o SubSeq(sorted, at, Len(sorted))

RECURSIVE SortByDate(_)
SortByDate(s) ==
    IF s = <<>> THEN <<>>
    ELSE InsertByDate(SortByDate(SubSeq(s, 1, Len(s) - 1)), s[Len(s)])

TrackableTypes == {"expansion", "core", "masters"}

\* part_000:86-88, followed by the sort of part_000:91
Candidates(data, nowT) ==
    LET typed == SelectSeq(data, LAMBDA s : s.set_type \in TrackableTypes)
        recent == SelectSeq(typed, LAMBDA s :
                      DateGt(NewDate(s), DateOfTime(nowT - GraceWindow)))
    IN  SortByDate(recent)

\* part_000:94
FutureSets(candidates, nowT) ==
    SelectSeq(candidates, LAMBDA s : DateGe(NewDate(s), DateOfTime(nowT)))

\* a resolver that falls back to the earliest candidate, not the latest
TargetSetEarliest(data, nowT) ==
    LET candidates == Candidates(data, nowT)
        futureSets == FutureSets(candidates, nowT)
    IN  IF Len(futureSets) > 0 THEN futureSets[1]
        ELSE IF Len(candidates) > 0 THEN candidates[1]
        ELSE Null

\* part_000:95; candidates[-1] of an empty list is undefined (Null here)
TargetSet(data, nowT) ==
    LET candidates == Candidates(data, nowT)
        futureSets == FutureSets(candidates, nowT)
    IN  IF Len(futureSets) > 0 THEN futureSets[1]
        ELSE IF Len(candidates) > 0 THEN candidates[Len(candidates)]
        ELSE Null

AppTrackableTypes == {"expansion", "core", "masters", "commander"}

\* App.jsx:45-47
Upcoming(data, nowT) ==
    LET kept == SelectSeq(data, LAMBDA s :
                    /\ s.set_type \in AppTrackableTypes
                    /\ DateGt(NewDate(s), DateOfTime(nowT)))
        sorted == SortByDate(kept)
    IN  IF Len(sorted) > 0 THEN sorted[1] ELSE Null

----------------------------------------------------------------------------
(* CardCollector ordering: part_000:33-37, 121-133 *)

COLOR_ORDER == [W |-> 0, U |-> 1, B |-> 2, R |-> 3, G |-> 4, M |-> 5, C |-> 6]

\* part_000:123-127
GetColorIndex(c) ==
    IF ~Has(c, "colors") \/ Len(c.colors) = 0 THEN COLOR_ORDER["C"]
    ELSE IF Len(c.colors) > 1 THEN COLOR_ORDER["M"]
    ELSE IF c.colors[1] \in DOMAIN COLOR_ORDER THEN COLOR_ORDER[c.colors[1]]
    ELSE 7

\* part_000:129-132
CompareCards(a, b) ==
    LET colorA == GetColorIndex(a)
        colorB == GetColorIndex(b)
    IN  IF colorA # colorB THEN colorA - colorB ELSE a.cmc - b.cmc

InsertCard(sorted, x) ==
    LET later == {i \in 1..Len(sorted) : CompareCards(sorted[i], x) > 0}
        at == IF later = {} THEN Len(sorted) + 1
              ELSE CHOOSE i \in later : \A j \in later : i <= j
    IN  SubSeq(sorted, 1, at - 1) \o <<x>> \o SubSeq(sorted, at, Len(sorted))

\* allFetchedCards.sort(...), part_000:122
RECURSIVE SortCards(_)
SortCards(s) ==
    IF s = <<>> THEN <<>>
    ELSE InsertCard(SortCards(SubSeq(s, 1, Len(s) - 1)), s[Len(s)])

----------------------------------------------------------------------------
(* ViewDeriver: part_000:178-191 and App.jsx:89 *)

LowerOf == [A |-> "a", B |-> "b"]

\* String.prototype.toLowerCase, character by character
ToLowerCase(str) ==
    [i \in 1..Len(str) |->
        IF str[i] \in DOMAIN LowerOf THEN LowerOf[str[i]] ELSE str[i]]

\* String.prototype.includes
Includes(str, sub) ==
    \E i \in 0..(Len(str) - Len(sub)) : SubSeq(str, i + 1, i + Len(sub)) = sub

NoFilter == "null"

\* part_000:184  c.colors || c.card_faces?.[0]?.colors || []
\* (an empty array is truthy: a present colors field is used even when empty)
CardColors(c) ==
    IF Has(c, "colors") THEN c.colors
    ELSE IF /\ Has(c, "card_faces")
            /\ Len(c.card_faces) > 0
            /\ Has(c.card_faces[1], "colors")
         THEN c.card_faces[1].colors
    ELSE <<>>

\* a colour filter that passes every card carrying the colour
PassesFilterAnyColor(c, term, filter) ==
    IF ~Includes(ToLowerCase(c.name), ToLowerCase(term)) THEN FALSE
    ELSE IF filter # NoFilter
         THEN LET cardColors == CardColors(c)
              IN  IF filter = "C" THEN Len(cardColors) = 0
                  ELSE IF filter = "M" THEN Len(cardColors) > 1
                  ELSE filter \in Range(cardColors)
    ELSE TRUE

\* the filter callback, part_000:179-190
PassesFilter(c, term, filter) ==
    IF ~Includes(ToLowerCase(c.name), ToLowerCase(term)) THEN FALSE
    ELSE IF filter # NoFilter
         THEN LET cardColors == CardColors(c)
              IN  IF filter = "C" THEN Len(cardColors) = 0
                  ELSE IF filter = "M" THEN Len(cardColors) > 1
                  ELSE Len(cardColors) = 1 /\ cardColors[1] = filter
    ELSE TRUE

\* App.jsx:89
AppPassesFilter(c, term) == Includes(ToLowerCase(c.name), ToLowerCase(term))

\* the derived view (useMemo in part_000, recomputed on render in App.jsx)
filteredCards ==
    IF variant = "paginated"
    THEN SelectSeq(cards, LAMBDA c : PassesFilter(c, searchTerm, activeFilter))
    ELSE SelectSeq(cards, LAMBDA c : AppPassesFilter(c, searchTerm))

\* a toggle that only ever adds
ToggledSetAddOnly(selection, id) == selection \cup {id}

\* part_000:171-174
ToggledSet(selection, id) ==
    IF id \in selection THEN selection \ {id} ELSE selection \cup {id}

----------------------------------------------------------------------------
(* CountdownClock: part_000:155-166 and App.jsx:73-84, diff in milliseconds *)

ZeroTime == [d |-> 0, h |-> 0, m |-> 0, s |-> 0]

\* a countdown whose hours are not reduced modulo 24
CountdownTotalHours(diff) ==
    IF diff <= 0 THEN ZeroTime
    ELSE [d |-> Floor(diff, MsPerDay),
          h |-> Floor(diff, 1000 * 60 * 60),
          m |-> Floor(Floor(diff, 1000), 60) % 60,
          s |-> Floor(diff, 1000) % 60]

Countdown(diff) ==
    IF diff <= 0 THEN ZeroTime
    ELSE [d |-> Floor(diff, MsPerDay),
          h |-> Floor(diff, 1000 * 60 * 60) % 24,
          m |-> Floor(Floor(diff, 1000), 60) % 60,
          s |-> Floor(diff, 1000) % 60]

----------------------------------------------------------------------------
(* The collaborators' data the model draws from *)

DayT(n) == n * SecPerDay

\* the clock at startup: noon of day 100
NowStart == DayT(100) + 12 * 60 * 60

Release(code, type, day) ==
    [code |-> code, set_type |-> type, released_at |-> DayT(day)]

SetOld == Release("old", "expansion", 30)
SetRecent == Release("rec", "expansion", 90)
SetToday == Release("tod", "core", 100)
SetSoon == Release("soo", "core", 105)
SetNext == Release("nxt", "masters", 110)
SetTwin == Release("twn", "expansion", 110)
SetFar == Release("far", "expansion", 120)
SetCommander == Release("cmd", "commander", 104)
SetFunny == Release("fun", "funny", 103)
SetUndated == [code |-> "und", set_type |-> "expansion"]

SetPool == {SetOld, SetRecent, SetToday, SetSoon, SetNext, SetTwin, SetFar,
            SetCommander, SetFunny, SetUndated}

\* the instants the clock of the integrated model steps through
ClockInstants ==
    {NowStart,
     SetNext.released_at - PrereleaseOffset - (SecPerDay + 3600 + 60 + 1),
     SetNext.released_at - PrereleaseOffset}

\* the catalogs of the integrated model
Catalogs ==
    {<<SetOld, SetFunny>>,
     <<SetFar, SetNext, SetFunny>>,
     <<SetOld, SetRecent, SetUndated>>,
     <<SetCommander, SetSoon>>}

CardR == [id |-> 1, name |-> <<"B", "a">>, colors |-> <<"R">>, cmc |-> 3]
CardC == [id |-> 2, name |-> <<"a", "b">>, colors |-> <<>>, cmc |-> 1]
CardW == [id |-> 3, name |-> <<"A", "b", "a">>, colors |-> <<"W">>, cmc |-> 1]
CardWU == [id |-> 4, name |-> <<"b", "B">>, colors |-> <<"W", "U">>, cmc |-> 2]
CardW2 == [id |-> 6, name |-> <<"b", "a">>, colors |-> <<"W">>, cmc |-> 1]
\* a multi-faced card: no top-level colors, the colours are on its faces
CardDfc ==
    [id |-> 5, name |-> <<"a">>, cmc |-> 2,
     card_faces |-> <<[colors |-> <<"G">>], [colors |-> <<"B">>]>>]

CardPool == {CardR, CardC, CardW, CardWU, CardW2, CardDfc}

\* the cards of the releases of the integrated model
FewCards == {CardW, CardC, CardWU, CardDfc}

\* the card lists of a release: sequences of distinct cards of a pool
CardLists(pool) ==
    UNION {{s \in [1..n -> pool] :
              \A i, j \in 1..n : i # j => s[i].id # s[j].id} : n \in 0..MaxCards}

RECURSIVE SumTo(_, _)
SumTo(f, k) == IF k = 0 THEN 0 ELSE f[k] + SumTo(f, k - 1)

\* the ways the card search splits a list into at most MaxPages pages
PageSplits(list) ==
    IF list = <<>> THEN {<< <<>> >>}
    ELSE UNION {
           {[i \in 1..k |->
                SubSeq(list, SumTo(sz, i - 1) + 1, SumTo(sz, i))] :
              sz \in {f \in [1..k -> 1..Len(list)] : SumTo(f, k) = Len(list)}}
           : k \in 1..MaxPages}

ServerPageSets == UNION {PageSplits(list) : list \in CardLists(FewCards)}

----------------------------------------------------------------------------
(* Card search endpoint *)

\* `${SCRYFALL_SEARCH_API}?q=set:${code}&unique=prints` (part_000:102),
\* `...&order=spoiled` (App.jsx:52)
FirstUri(code) == <<"search", code>>

PageUri(k) == <<"page", k>>

NullUri == <<>>

PageIndex(uri) == IF uri[1] = "search" THEN 1 ELSE uri[2]

\* the well-formed answer to a request for page k
PageBody(k) ==
    IF k < Len(serverPages)
    THEN [data |-> serverPages[k], has_more |-> TRUE, next_page |-> PageUri(k + 1)]
    ELSE [data |-> serverPages[k], has_more |-> FALSE]

\* a non-success answer with a JSON body (404, 429): no data, no has_more
ErrorBody == [object |-> "error"]

\* answers that break the pagination contract
OddBodies(k) ==
    IF k < Len(serverPages)
    THEN {[data |-> serverPages[k], has_more |-> TRUE],
          [data |-> serverPages[k], has_more |-> FALSE,
           next_page |-> PageUri(k + 1)]}
    ELSE {}

Responses(uri) ==
    LET k == PageIndex(uri)
    IN  {PageBody(k), ErrorBody} \cup OddBodies(k)

\* a continuation test that looks at the reference only
HasNextRefOnly(resp) ==
    Has(resp, "next_page") /\ resp.next_page # NullUri

\* cardData.has_more && cardData.next_page (part_000:113)
HasNext(resp) ==
    /\ Has(resp, "has_more") /\ resp.has_more
    /\ Has(resp, "next_page") /\ resp.next_page # NullUri

----------------------------------------------------------------------------
(* The application *)

\* what no handler of the fetch, the clock or the dashboard writes: the
\* environment, the mount flag and the theme
envVars == <<variant, catalog, serverPages, mounted, isDark>>
uiVars == <<searchTerm, selectedCards, activeFilter, lastEvent, eventSeq,
            selBefore>>
timerVars == <<timers, timerTarget, timerSince, effectDep>>
tickVars == <<timeLeft, tickDiff>>
historyVars == <<requests, served, inFlight, gathered, resolvedAt, failure,
                 cardWrites>>

\* part_000:51-54  saved ? saved === 'dark' : true
InitialTheme(saved) == IF saved # Null THEN saved = "dark" ELSE TRUE

\* the state after the first render, before the startup effect runs (no
\* theme saved)
Mounted(v, releases, pages, t) ==
    /\ variant = v
    /\ catalog = releases
    /\ serverPages = pages
    /\ pc = "mount"
    /\ loading = TRUE
    /\ currentSet = Null
    /\ cards = <<>>
    /\ searchTerm = <<>>
    /\ timeLeft = ZeroTime
    /\ selectedCards = {}
    /\ activeFilter = NoFilter
    /\ allFetchedCards = <<>>
    /\ nextUri = NullUri
    /\ now = t
    /\ requests = <<>>
    /\ served = <<>>
    /\ inFlight = 0
    /\ gathered = <<>>
    /\ resolvedAt = <<>>
    /\ failure = "none"
    /\ timers = 0
    /\ timerTarget = 0
    /\ timerSince = 0
    /\ effectDep = Null
    /\ tickDiff = <<>>
    /\ lastEvent = NoEvent
    /\ eventSeq = 0
    /\ selBefore = {}
    /\ cardWrites = 0
    /\ mounted = TRUE
    /\ isDark = InitialTheme(Null)

Init ==
    \E v \in {"paginated", "single"}, releases \in Catalogs,
       pages \in ServerPageSets :
        Mounted(v, releases, pages, NowStart)

\* an accumulator that is overwritten by each page
AppendPageOverwrite(acc, resp) ==
    IF Has(resp, "data") THEN resp.data ELSE acc

\* part_000:108-110  if (cardData.data) allFetchedCards = [...allFetchedCards, ...cardData.data]
AppendPage(acc, resp) ==
    IF Has(resp, "data") THEN acc \o resp.data ELSE acc

\* fetchData up to its first await: part_000:78-81, App.jsx:39-41
\* (only part_000 calls setLoading(true); loading is true already)
StartFetch ==
    /\ pc = "mount"
    /\ pc' = "awaitSets"
    /\ loading' = TRUE
    /\ UNCHANGED <<currentSet, cards, allFetchedCards, nextUri, now>>
    /\ UNCHANGED <<envVars, uiVars, timerVars, tickVars, historyVars>>

\* the releases request fails (network error, unparsable body, or a body
\* without a data list, on which data.filter throws): catch, then finally
SetsThrow ==
    /\ pc = "awaitSets"
    /\ pc' = "done"
    /\ failure' = "sets"
    /\ loading' = FALSE
    /\ UNCHANGED <<currentSet, cards, allFetchedCards, nextUri, now>>
    /\ UNCHANGED <<envVars, uiVars, timerVars, tickVars>>
    /\ UNCHANGED <<requests, served, inFlight, gathered, resolvedAt, cardWrites>>

\* part_000:82-105: the releases arrive; resolve the target, and either
\* issue the first page request or fall through to finally
SetsResponse ==
    /\ variant = "paginated"
    /\ pc = "awaitSets"
    /\ resolvedAt' = <<now>>
    /\ LET targetSet == TargetSet(catalog, now)
       IN  IF targetSet # Null
           THEN /\ currentSet' = targetSet
                /\ allFetchedCards' = <<>>
                /\ nextUri' = FirstUri(targetSet.code)
                /\ requests' = Append(requests, FirstUri(targetSet.code))
                /\ inFlight' = inFlight + 1
                /\ pc' = "awaitPage"
                /\ UNCHANGED loading
           ELSE /\ loading' = FALSE
                /\ pc' = "done"
                /\ UNCHANGED <<currentSet, allFetchedCards, nextUri,
                               requests, inFlight>>
    /\ UNCHANGED <<cards, now, served, gathered, failure, cardWrites>>
    /\ UNCHANGED <<envVars, uiVars, timerVars, tickVars>>

\* a collector that publishes the sorted accumulation after every page
PageResponsePublishEach(resp) ==
    /\ variant = "paginated"
    /\ pc = "awaitPage"
    /\ served' = Append(served, resp)
    /\ inFlight' = inFlight - 1
    /\ LET acc == AppendPage(allFetchedCards, resp)
       IN  /\ cards' = SortCards(acc)
           /\ cardWrites' = cardWrites + 1
           /\ IF HasNext(resp)
              THEN /\ nextUri' = resp.next_page
                   /\ allFetchedCards' = acc
                   /\ pc' = "delay"
                   /\ UNCHANGED <<loading, gathered>>
              ELSE /\ nextUri' = NullUri
                   /\ gathered' = acc
                   /\ allFetchedCards' = SortCards(acc)
                   /\ loading' = FALSE
                   /\ pc' = "done"
    /\ UNCHANGED <<currentSet, now, requests, resolvedAt, failure>>
    /\ UNCHANGED <<envVars, uiVars, timerVars, tickVars>>

\* part_000:105-135: a page answer arrives and parses
PageResponse(resp) ==
    /\ variant = "paginated"
    /\ pc = "awaitPage"
    /\ served' = Append(served, resp)
    /\ inFlight' = inFlight - 1
    /\ LET acc == AppendPage(allFetchedCards, resp)
       IN  IF HasNext(resp)
           THEN /\ nextUri' = resp.next_page
                /\ allFetchedCards' = acc
                /\ pc' = "delay"
                /\ UNCHANGED <<cards, loading, gathered, cardWrites>>
           ELSE /\ nextUri' = NullUri
                /\ gathered' = acc
                /\ allFetchedCards' = SortCards(acc)
                /\ cards' = SortCards(acc)
                /\ cardWrites' = cardWrites + 1
                /\ loading' = FALSE
                /\ pc' = "done"
    /\ UNCHANGED <<currentSet, now, requests, resolvedAt, failure>>
    /\ UNCHANGED <<envVars, uiVars, timerVars, tickVars>>

\* part_000:115 then 104-105: the 50 ms delay ends, the next page is requested
DelayDone ==
    /\ variant = "paginated"
    /\ pc = "delay"
    /\ requests' = Append(requests, nextUri)
    /\ inFlight' = inFlight + 1
    /\ pc' = "awaitPage"
    /\ UNCHANGED <<loading, currentSet, cards, allFetchedCards, nextUri, now>>
    /\ UNCHANGED <<served, gathered, resolvedAt, failure, cardWrites>>
    /\ UNCHANGED <<envVars, uiVars, timerVars, tickVars>>

\* a failure path without the finally block: loading is never cleared
PageThrowNoFinally ==
    /\ pc \in {"awaitPage", "awaitCards"}
    /\ failure' = "page"
    /\ inFlight' = inFlight - 1
    /\ pc' = "done"
    /\ UNCHANGED <<loading, currentSet, cards, allFetchedCards, nextUri, now>>
    /\ UNCHANGED <<requests, served, gathered, resolvedAt, cardWrites>>
    /\ UNCHANGED <<envVars, uiVars, timerVars, tickVars>>

\* a card request rejects or its body does not parse: catch (part_000:137,
\* App.jsx:56), then finally; the accumulator is a local and is dropped
PageThrow ==
    /\ pc \in {"awaitPage", "awaitCards"}
    /\ failure' = "page"
    /\ inFlight' = inFlight - 1
    /\ loading' = FALSE
    /\ pc' = "done"
    /\ UNCHANGED <<currentSet, cards, allFetchedCards, nextUri, now>>
    /\ UNCHANGED <<requests, served, gathered, resolvedAt, cardWrites>>
    /\ UNCHANGED <<envVars, uiVars, timerVars, tickVars>>

\* App.jsx:42-52
AppSetsResponse ==
    /\ variant = "single"
    /\ pc = "awaitSets"
    /\ resolvedAt' = <<now>>
    /\ LET upcoming == Upcoming(catalog, now)
       IN  IF upcoming # Null
           THEN /\ currentSet' = upcoming
                /\ requests' = Append(requests, FirstUri(upcoming.code))
                /\ inFlight' = inFlight + 1
                /\ pc' = "awaitCards"
                /\ UNCHANGED loading
           ELSE /\ loading' = FALSE
                /\ pc' = "done"
                /\ UNCHANGED <<currentSet, requests, inFlight>>
    /\ UNCHANGED <<cards, allFetchedCards, nextUri, now, served, gathered, failure,
                   cardWrites>>
    /\ UNCHANGED <<envVars, uiVars, timerVars, tickVars>>

\* App.jsx:53-54, 59  setCards(cardData.data || [])
AppCardsResponse(resp) ==
    /\ variant = "single"
    /\ pc = "awaitCards"
    /\ served' = Append(served, resp)
    /\ inFlight' = inFlight - 1
    /\ cards' = IF Has(resp, "data") THEN resp.data ELSE <<>>
    /\ cardWrites' = cardWrites + 1
    /\ loading' = FALSE
    /\ pc' = "done"
    /\ UNCHANGED <<currentSet, allFetchedCards, nextUri, now>>
    /\ UNCHANGED <<requests, gathered, resolvedAt, failure>>
    /\ UNCHANGED <<envVars, uiVars, timerVars, tickVars>>

fetchVars == <<pc, loading, currentSet, cards, allFetchedCards, nextUri>>

\* the countdown effect runs after a render in which currentSet changed
\* (part_000:147-169, App.jsx:66-87): the previous run's cleanup clears its
\* timer, then a timer is started if a target release is known
CountdownEffect ==
    /\ mounted
    /\ effectDep # currentSet
    /\ effectDep' = currentSet
    /\ LET cleared == IF effectDep # Null THEN timers - 1 ELSE timers
       IN  IF currentSet = Null
           THEN /\ timers' = cleared
                /\ UNCHANGED <<timerTarget, timerSince>>
           ELSE /\ timers' = cleared + 1
                /\ timerTarget' = currentSet.released_at - PrereleaseOffset
                /\ timerSince' = now
    /\ UNCHANGED <<fetchVars, now, envVars, uiVars, tickVars, historyVars>>

\* an interval callback that drops the tracked release when it has expired
TimerTickForgetsExpired ==
    /\ timers > 0
    /\ now >= timerSince + 1
    /\ LET diff == (timerTarget - now) * MsPerSec
       IN  /\ timeLeft' = Countdown(diff)
           /\ tickDiff' = <<diff>>
           /\ currentSet' = IF diff <= 0 THEN Null ELSE currentSet
    /\ UNCHANGED <<pc, loading, cards, allFetchedCards, nextUri>>
    /\ UNCHANGED <<now, envVars, uiVars, timerVars, historyVars>>

\* the interval callback, part_000:153-167, App.jsx:71-85; the first call
\* comes one second after the timer was started
TimerTick ==
    /\ timers > 0
    /\ now >= timerSince + 1
    /\ LET diff == (timerTarget - now) * MsPerSec
       IN  /\ timeLeft' = Countdown(diff)
           /\ tickDiff' = <<diff>>
    /\ UNCHANGED <<fetchVars, now, envVars, uiVars, timerVars, historyVars>>

\* time passes
Advance(t) ==
    /\ t > now
    /\ now' = t
    /\ UNCHANGED <<fetchVars, envVars, uiVars, timerVars, tickVars, historyVars>>

\* a teardown that leaves the interval running
UnmountNoClear ==
    /\ mounted
    /\ mounted' = FALSE
    /\ UNCHANGED <<fetchVars, now, variant, catalog, serverPages, isDark>>
    /\ UNCHANGED <<uiVars, timerVars, tickVars, historyVars>>

\* the component is torn down: React runs the cleanup the last run of the
\* countdown effect returned, if it returned one (part_000:168, App.jsx:86
\* return () => clearInterval(timer))
Unmount ==
    /\ mounted
    /\ mounted' = FALSE
    /\ timers' = IF effectDep # Null THEN timers - 1 ELSE timers
    /\ UNCHANGED <<timerTarget, timerSince, effectDep>>
    /\ UNCHANGED <<fetchVars, now, variant, catalog, serverPages, isDark>>
    /\ UNCHANGED <<uiVars, tickVars, historyVars>>

\* the controls are rendered only once loading is false (part_000:193,
\* App.jsx:91)
Recorded(event) ==
    /\ lastEvent' = event
    /\ eventSeq' = 1 - eventSeq
    /\ selBefore' = selectedCards

\* onChange of the search box, part_000:216, App.jsx:115
SetSearchTerm(text) ==
    /\ ~loading
    /\ searchTerm' = text
    /\ Recorded([op |-> "search"])
    /\ UNCHANGED <<selectedCards, activeFilter>>
    /\ UNCHANGED <<fetchVars, now, envVars, timerVars, tickVars, historyVars>>

\* a mana button, part_000:271  setActiveFilter(isActive ? null : f.id)
ClickFilter(f) ==
    /\ variant = "paginated"
    /\ ~loading
    /\ activeFilter' = IF activeFilter = f THEN NoFilter ELSE f
    /\ Recorded([op |-> "filter"])
    /\ UNCHANGED <<searchTerm, selectedCards>>
    /\ UNCHANGED <<fetchVars, now, envVars, timerVars, tickVars, historyVars>>

\* the clear buttons, part_000:289, 325; shown while a filter is active or
\* the view is empty
ClearFilter ==
    /\ variant = "paginated"
    /\ ~loading
    /\ activeFilter # NoFilter \/ filteredCards = <<>>
    /\ activeFilter' = NoFilter
    /\ Recorded([op |-> "clear"])
    /\ UNCHANGED <<searchTerm, selectedCards>>
    /\ UNCHANGED <<fetchVars, now, envVars, timerVars, tickVars, historyVars>>

\* part_000:171-176, called from a displayed card (part_000:318)
toggleSelection(id) ==
    /\ variant = "paginated"
    /\ ~loading
    /\ selectedCards' = ToggledSet(selectedCards, id)
    /\ Recorded([op |-> "toggle", id |-> id])
    /\ UNCHANGED <<searchTerm, activeFilter>>
    /\ UNCHANGED <<fetchVars, now, envVars, timerVars, tickVars, historyVars>>

\* the theme button, part_000:220, App.jsx:119  setIsDark(!isDark)
ToggleTheme ==
    /\ ~loading
    /\ isDark' = ~isDark
    /\ UNCHANGED <<fetchVars, now, variant, catalog, serverPages, mounted>>
    /\ UNCHANGED <<uiVars, timerVars, tickVars, historyVars>>

----------------------------------------------------------------------------
(* The inputs of the UI events *)

MANA_FILTERS == {"W", "U", "B", "R", "G", "C", "M"}

SearchTexts == {<<>>, <<"b">>, <<"B", "A">>, <<"a", "b">>, <<"a", "b", "a", "b">>}

\* the UI inputs of the integrated model
FewTexts == {<<>>, <<"b">>}
FewFilters == {"W", "M"}

----------------------------------------------------------------------------
(* Spec: the whole application, both variants *)

\* the card search answers the request in flight
PageArrives ==
    /\ pc = "awaitPage"
    /\ \E resp \in Responses(nextUri) : PageResponse(resp)

AppCardsArrive ==
    /\ pc = "awaitCards"
    /\ \E resp \in Responses(requests[Len(requests)]) : AppCardsResponse(resp)

Fetch ==
    \/ StartFetch
    \/ SetsThrow
    \/ SetsResponse
    \/ PageArrives
    \/ DelayDone
    \/ PageThrow
    \/ AppSetsResponse
    \/ AppCardsArrive

Clock ==
    \/ CountdownEffect
    \/ TimerTick
    \/ \E t \in ClockInstants : Advance(t)

\* The UI events act on the dashboard that is rendered once loading is over;
\* they are composed in SpecView and SpecSelect.
Next ==
    \/ Fetch
    \/ Clock

Spec == Init /\ [][Next]_vars

FetchProgress ==
    /\ WF_vars(StartFetch)
    /\ WF_vars(SetsThrow \/ SetsResponse \/ AppSetsResponse)
    /\ WF_vars(PageArrives \/ AppCardsArrive \/ PageThrow)
    /\ WF_vars(DelayDone)

\* the releases of the liveness model: page contents do not matter to it
LivePageSets ==
    UNION {PageSplits(list) : list \in CardLists({CardW, CardWU, CardDfc})}

InitLive ==
    \E v \in {"paginated", "single"}, releases \in Catalogs,
       pages \in LivePageSets :
        Mounted(v, releases, pages, NowStart)

\* every issued request eventually completes, with a result or a failure,
\* and the 50 ms delay ends
FairSpec == InitLive /\ [][Next]_vars /\ FetchProgress

----------------------------------------------------------------------------
(* SpecTimer: the application with its teardown.  After the teardown React *)
(* ignores the state updates of a fetch that is still running, so the      *)
(* component's state no longer changes; an interval that was left alive    *)
(* would still fire.                                                       *)

MountedFetch == mounted /\ Fetch

NextTimer ==
    \/ MountedFetch
    \/ Clock
    \/ Unmount

SpecTimer == Init /\ [][NextTimer]_vars

----------------------------------------------------------------------------
(* SpecResolve: the resolver of part_000 over every catalog *)

CatalogLists == UNION {[1..n -> SetPool] : n \in 0..MaxCatalog}

ResolveInstants == {NowStart, SetNext.released_at, DayT(150)}

InitResolve ==
    \E releases \in CatalogLists, t \in ResolveInstants :
        Mounted("paginated", releases, << <<>> >>, t)

NextResolve ==
    \/ StartFetch
    \/ SetsResponse

SpecResolve == InitResolve /\ [][NextResolve]_vars

----------------------------------------------------------------------------
(* SpecTick: the interval callback as a function of its two inputs,        *)
(* prereleaseDate and new Date(), both in milliseconds                     *)

TickUnits == {1000, 1000 * 60, 1000 * 60 * 60, 1000 * 60 * 60 * 24}

NowMs == {u * k + e : u \in TickUnits, k \in 0..1, e \in {0, 1}}

PrereleaseMs ==
    {u * k - e : u \in TickUnits, k \in 1..2, e \in {0, 1}}
        \cup {0, 93784000, 93784999, 20 * MsPerDay + 1}

\* part_000:154-166, App.jsx:72-84
TickAt(prereleaseDate, nowMs) ==
    /\ LET diff == prereleaseDate - nowMs
       IN  /\ timeLeft' = Countdown(diff)
           /\ tickDiff' = <<diff>>
    /\ UNCHANGED <<fetchVars, now, envVars, uiVars, timerVars, historyVars>>

InitTick == Mounted("paginated", <<SetNext>>, << <<>> >>, NowStart)

NextTick == \E p \in PrereleaseMs, n \in NowMs : TickAt(p, n)

SpecTick == InitTick /\ [][NextTick]_vars

----------------------------------------------------------------------------
(* SpecView, SpecSelect: the dashboard of part_000 once loading is over *)

\* the state fetchData and the countdown effect leave behind when the
\* release `list` arrived in one page
Loaded(list) ==
    /\ variant = "paginated"
    /\ catalog = <<SetNext>>
    /\ serverPages = <<list>>
    /\ pc = "done"
    /\ loading = FALSE
    /\ currentSet = SetNext
    /\ cards = SortCards(list)
    /\ searchTerm = <<>>
    /\ timeLeft = ZeroTime
    /\ selectedCards = {}
    /\ activeFilter = NoFilter
    /\ allFetchedCards = SortCards(list)
    /\ nextUri = NullUri
    /\ now = NowStart
    /\ requests = <<FirstUri(SetNext.code)>>
    /\ served = <<[data |-> list, has_more |-> FALSE]>>
    /\ inFlight = 0
    /\ gathered = list
    /\ resolvedAt = <<NowStart>>
    /\ failure = "none"
    /\ timers = 1
    /\ timerTarget = SetNext.released_at - PrereleaseOffset
    /\ timerSince = NowStart
    /\ effectDep = SetNext
    /\ tickDiff = <<>>
    /\ lastEvent = NoEvent
    /\ eventSeq = 0
    /\ selBefore = {}
    /\ cardWrites = 1
    /\ mounted = TRUE
    /\ isDark = InitialTheme(Null)

InitView == \E list \in CardLists(CardPool) : Loaded(list)

NextView ==
    \/ \E text \in SearchTexts : SetSearchTerm(text)
    \/ \E f \in MANA_FILTERS : ClickFilter(f)
    \/ ClearFilter

SpecView == InitView /\ [][NextView]_vars

InitSelect == \E list \in CardLists(FewCards) : Loaded(list)

\* onToggle of a displayed card, part_000:314-319
ToggleDisplayed ==
    \E i \in 1..Len(filteredCards) : toggleSelection(filteredCards[i].id)

NextSelect ==
    \/ \E text \in FewTexts : SetSearchTerm(text)
    \/ \E f \in FewFilters : ClickFilter(f)
    \/ ClearFilter
    \/ ToggleDisplayed

SpecSelect == InitSelect /\ [][NextSelect]_vars

----------------------------------------------------------------------------
(* SpecSession: a whole session, the fetch, the clock and the user's       *)
(* events together, on a release of two cards                              *)

SessionPageSets == PageSplits(<<CardW, CardDfc>>)

InitSession ==
    \E v \in {"paginated", "single"}, releases \in Catalogs,
       pages \in SessionPageSets :
        Mounted(v, releases, pages, NowStart)

Dashboard ==
    \/ \E text \in FewTexts : SetSearchTerm(text)
    \/ \E f \in FewFilters : ClickFilter(f)
    \/ ClearFilter
    \/ ToggleDisplayed
    \/ ToggleTheme

NextSession ==
    \/ Fetch
    \/ Clock
    \/ Dashboard

SpecSession == InitSession /\ [][NextSession]_vars

----------------------------------------------------------------------------
(* Claims *)

\* C1 (SpecResolve).  Once fetchData has resolved the target of the grace-window
\* variant: with candidates the releases of the catalog of type expansion,
\* core or masters whose date parses and lies after now - 60 days, currentSet
\* is null exactly when there is no candidate; otherwise it is a candidate,
\* one with the earliest date among those dated now or later when there are
\* such, else one with the latest date.
C1_Candidates ==
    {catalog[i] : i \in {j \in 1..Len(catalog) :
        /\ catalog[j].set_type \in {"expansion", "core", "masters"}
        /\ "released_at" \in DOMAIN catalog[j]
        /\ catalog[j].released_at > resolvedAt[1] - 60 * SecPerDay}}

C1_ResolvedTarget ==
    (variant = "paginated" /\ resolvedAt # <<>>) =>
        LET upcoming == {s \in C1_Candidates : s.released_at >= resolvedAt[1]}
        IN  /\ (currentSet = Null) <=> (C1_Candidates = {})
            /\ C1_Candidates # {} =>
                /\ currentSet \in C1_Candidates
                /\ IF upcoming # {}
                   THEN /\ currentSet \in upcoming
                        /\ \A s \in upcoming :
                              currentSet.released_at <= s.released_at
                   ELSE \A s \in C1_Candidates :
                              s.released_at <= currentSet.released_at

\* the fallback case: two candidates in the grace window, none upcoming
C1_Witness ==
    /\ resolvedAt = <<NowStart>>
    /\ catalog = <<SetToday, SetRecent, SetOld>>
    /\ currentSet = SetToday

\* C2 (Spec).  When the paginated variant has left its page loop without a
\* failure and every answer was the well-formed page of the chain (pages
\* 1..N-1 with has_more and a next_page reference, page N with has_more false),
\* it has issued exactly N requests, each for the reference the previous
\* answer gave, and the accumulator before the sort is the concatenation of
\* the pages in page order.
C2_ChainServed ==
    /\ Len(served) >= 1
    /\ \A k \in 1..Len(served) : served[k] = PageBody(k)

C2_Exhaustive ==
    (/\ variant = "paginated"
     /\ pc = "done"
     /\ failure = "none"
     /\ C2_ChainServed) =>
        /\ Len(requests) = Len(serverPages)
        /\ \A k \in 2..Len(requests) : requests[k] = served[k - 1].next_page
        /\ gathered = Concat(serverPages)
        /\ Len(gathered) = SumTo([k \in 1..Len(serverPages) |->
                                    Len(serverPages[k])], Len(serverPages))

\* three pages fetched to the end
C2_Witness ==
    /\ variant = "paginated"
    /\ pc = "done"
    /\ failure = "none"
    /\ C2_ChainServed
    /\ Len(serverPages) = 3
    /\ Len(requests) = 3
    /\ Len(gathered) = 3

\* C3 (Spec).  In the App.jsx variant, once loading has finished without a
\* fetch failure, the stored card list holds every card of every page of the
\* target release.
C3_AllPagesStored ==
    (/\ variant = "single"
     /\ pc = "done"
     /\ ~loading
     /\ failure = "none"
     /\ currentSet # Null
     /\ served = <<PageBody(1)>>) =>
        \A k \in 1..Len(serverPages) : Range(serverPages[k]) \subseteq Range(cards)

\* The colour identity of a card as the data model defines it: the top-level
\* colours when the card carries them, otherwise those of its first face.
ClaimIdentity(c) ==
    IF "colors" \in DOMAIN c THEN c.colors
    ELSE IF "card_faces" \in DOMAIN c /\ c.card_faces # <<>>
              /\ "colors" \in DOMAIN c.card_faces[1]
         THEN c.card_faces[1].colors
    ELSE <<>>

\* rank W=0, U=1, B=2, R=3, G=4, multicolor=5, colorless=6
ClaimRank(c) ==
    LET id == ClaimIdentity(c)
    IN  CASE Len(id) = 0 -> 6
          [] Len(id) > 1 -> 5
          [] id = <<"W">> -> 0
          [] id = <<"U">> -> 1
          [] id = <<"B">> -> 2
          [] id = <<"R">> -> 3
          [] id = <<"G">> -> 4

PositionIn(list, c) == CHOOSE i \in 1..Len(list) : list[i] = c

\* `published` is a permutation of `arrived` (cards are distinct), ascending
\* by (Rank, cmc), equal keys in arrival order
OrderedBy(published, arrived, Rank(_)) ==
    /\ Len(published) = Len(arrived)
    /\ Range(published) = Range(arrived)
    /\ \A i \in 1..(Len(published) - 1) :
          LET a == published[i]
              b == published[i + 1]
          IN  \/ Rank(a) < Rank(b)
              \/ Rank(a) = Rank(b) /\ a.cmc <= b.cmc
    /\ \A i, j \in 1..Len(published) :
          (/\ i < j
           /\ Rank(published[i]) = Rank(published[j])
           /\ published[i].cmc = published[j].cmc) =>
              PositionIn(arrived, published[i]) < PositionIn(arrived, published[j])

\* the paginated variant has published its card list
Published ==
    /\ variant = "paginated"
    /\ pc = "done"
    /\ failure = "none"
    /\ currentSet # Null

\* C4 (Spec).  The published card list is a permutation of the accumulated
\* cards, ascending by (colour-class rank, cmc) with rank W=0, U=1, B=2, R=3,
\* G=4, multicolor=5, colorless=6, equal keys keeping their arrival order.
C4_PublishedOrder == Published => OrderedBy(cards, gathered, ClaimRank)

\* The same order with the rank the comparator computes (getColorIndex): it
\* holds, so C4 fails only on the cards getColorIndex misclassifies.
ComparatorOrder == Published => OrderedBy(cards, gathered, GetColorIndex)

\* C5 (SpecView).  The derived view is the sub-list, in input order, of the
\* cards whose name contains the search text ignoring case and that pass the
\* colour predicate: no filter passes all, C passes zero colours, M more than
\* one colour, a letter exactly that single colour.
C5_SameLetter(x, y) ==
    \/ x = y
    \/ {x, y} = {"a", "A"}
    \/ {x, y} = {"b", "B"}

C5_NameMatches(c) ==
    \E offset \in 0..Len(c.name) :
        /\ offset + Len(searchTerm) <= Len(c.name)
        /\ \A k \in 1..Len(searchTerm) :
              C5_SameLetter(c.name[offset + k], searchTerm[k])

C5_ColorMatches(c) ==
    LET colorSet == Range(ClaimIdentity(c))
    IN  CASE activeFilter = NoFilter -> TRUE
          [] activeFilter = "C" -> Cardinality(colorSet) = 0
          [] activeFilter = "M" -> Cardinality(colorSet) > 1
          [] OTHER -> colorSet = {activeFilter}

C5_DerivedView ==
    LET keep == {i \in 1..Len(cards) :
                    C5_NameMatches(cards[i]) /\ C5_ColorMatches(cards[i])}
    IN  /\ Len(filteredCards) = Cardinality(keep)
        /\ \A i \in keep :
              filteredCards[Cardinality({j \in keep : j <= i})] = cards[i]

\* filter W with a two-coloured card holding W in the list, and a search text
\* whose case differs from the names
C5_Witness ==
    /\ activeFilter = "W"
    /\ searchTerm = <<"B", "A">>
    /\ CardWU \in Range(cards)
    /\ filteredCards = <<CardW, CardW2>>

\* C6 (SpecTick).  A tick with now >= prereleaseDate yields {0,0,0,0};
\* otherwise d, h, m, s are non-negative, h <= 23, m <= 59, s <= 59 and
\* d*86400 + h*3600 + m*60 + s = floor((prereleaseDate - now) / 1000).
C6_Tick ==
    tickDiff # <<>> =>
        IF tickDiff[1] <= 0 THEN timeLeft = [d |-> 0, h |-> 0, m |-> 0, s |-> 0]
        ELSE /\ timeLeft.d >= 0
             /\ timeLeft.h \in 0..23
             /\ timeLeft.m \in 0..59
             /\ timeLeft.s \in 0..59
             /\ timeLeft.d * 86400 + timeLeft.h * 3600 + timeLeft.m * 60
                    + timeLeft.s = tickDiff[1] \div 1000

\* 1 day 2 hours 3 minutes 4 seconds remaining
C6_Witness ==
    /\ tickDiff = <<93784000>>
    /\ timeLeft = [d |-> 1, h |-> 2, m |-> 3, s |-> 4]

\* C7 (Spec).  If the request for page k >= 2 fails (it rejects, or it is
\* answered with an error body) after pages 1..k-1 arrived, the stored card
\* list after loading consists of exactly the cards of pages 1..k-1.
C7_PartialKept ==
    LET failedByThrow == failure = "page"
        failedByBody == failure = "none" /\ served # <<>>
                            /\ served[Len(served)] = ErrorBody
        good == IF failedByBody THEN Len(served) - 1 ELSE Len(served)
        before == Concat([k \in 1..good |-> serverPages[k]])
    IN  (/\ variant = "paginated"
         /\ pc = "done"
         /\ ~loading
         /\ failedByThrow \/ failedByBody
         /\ good >= 1
         /\ \A k \in 1..good : served[k] = PageBody(k)) =>
            /\ Len(cards) = Len(before)
            /\ Range(cards) = Range(before)

\* C8 (FairSpec).  When every issued request completes and the page chain is
\* finite, loading eventually becomes false and stays false, whichever
\* request fails and also when no target is resolved; and after a failure
\* currentSet is null or a release of the catalog and cards is empty or the
\* sorted list of everything received.
C8_Failed ==
    \/ failure # "none"
    \/ \E k \in 1..Len(served) : served[k] = ErrorBody

C8_Received ==
    Concat([k \in 1..Len(served) |->
               IF "data" \in DOMAIN served[k] THEN served[k].data ELSE <<>>])

C8_Benign ==
    (pc = "done" /\ C8_Failed) =>
        /\ ~loading
        /\ currentSet = Null \/ currentSet \in Range(catalog)
        /\ \/ cards = <<>>
           \/ /\ variant = "paginated"
              /\ OrderedBy(cards, C8_Received, GetColorIndex)

C8_Terminates == <>[](loading = FALSE) /\ []C8_Benign

\* a later card page failed after an earlier one arrived, and loading is over
C8_Witness ==
    /\ pc = "done"
    /\ ~loading
    /\ failure = "page"
    /\ Len(requests) = 2
    /\ Len(served) = 1

\* C9 (Spec).  Sort and filter classify every published card by the same
\* colour identity, the top-level colours when present and otherwise those of
\* the first face: the sort's rank is the rank of that identity, and a card
\* whose identity is the single colour X passes the X filter.
C9_SameIdentity ==
    Published =>
        \A c \in Range(cards) :
            /\ GetColorIndex(c) = ClaimRank(c)
            /\ CardColors(c) = ClaimIdentity(c)
            /\ Len(ClaimIdentity(c)) = 1 =>
                  PassesFilter(c, <<>>, ClaimIdentity(c)[1])

\* C10 (SpecSelect).  A toggleSelection(id) step flips the membership of id in
\* the selection, keeps every other membership, and leaves the card list, the
\* search text, the active filter and the derived view as they were; when it
\* directly follows a toggle of the same id, the selection is back to what it
\* was before that first toggle.
C10_ToggleStep ==
    (eventSeq' # eventSeq /\ lastEvent'.op = "toggle") =>
        /\ (lastEvent'.id \in selectedCards') <=> (lastEvent'.id \notin selectedCards)
        /\ \A i \in (selectedCards \cup selectedCards') \ {lastEvent'.id} :
              (i \in selectedCards') <=> (i \in selectedCards)
        /\ cards' = cards
        /\ searchTerm' = searchTerm
        /\ activeFilter' = activeFilter
        /\ filteredCards' = filteredCards
        /\ lastEvent = lastEvent' => selectedCards' = selBefore

C10_Toggle == [][C10_ToggleStep]_vars

\* an id was just removed by a toggle while another id stays selected
C10_Witness ==
    /\ lastEvent.op = "toggle"
    /\ lastEvent.id \in selBefore
    /\ lastEvent.id \notin selectedCards
    /\ selectedCards # {}

\* C11 (Spec).  In the paginated variant the stored card list is empty until
\* the one setCards call, which is made when the page loop ends (no request
\* outstanding, no continuation left); from then on it is the whole
\* accumulation of the pages received, in the collector's sorted order, never
\* a shorter or an unsorted list; and it is written at most once.
C11_Stored ==
    variant = "paginated" =>
        /\ cardWrites \in {0, 1}
        /\ cardWrites = 0 => cards = <<>>
        /\ cardWrites = 1 =>
              /\ pc = "done"
              /\ nextUri = NullUri
              /\ inFlight = 0
              /\ Len(cards) = Len(C8_Received)
              /\ OrderedBy(cards, C8_Received, GetColorIndex)

C11_WriteStep ==
    variant = "paginated" =>
        /\ cards' # cards => cardWrites' = cardWrites + 1
        /\ cardWrites' # cardWrites =>
              /\ cardWrites = 0
              /\ pc = "awaitPage"
              /\ pc' = "done"
              /\ served' # served
              /\ ~HasNext(served'[Len(served')])

C11_AtomicPublish == []C11_Stored /\ [][C11_WriteStep]_vars

\* three pages were received and published in one write, in an order that
\* differs from the arrival order
C11_Witness ==
    /\ variant = "paginated"
    /\ cardWrites = 1
    /\ Len(served) = 3
    /\ Len(cards) = 3
    /\ cards # gathered

\* C12 (Spec).  Card page requests are strictly sequential: at most one is in
\* flight; a request is issued only when every earlier one has been answered
\* and parsed; the target of request k+1 is the next_page reference of
\* response k, which had has_more set; and after a response whose has_more is
\* false or that carries no next_page no request follows.
C12_Continues(resp) ==
    /\ "has_more" \in DOMAIN resp
    /\ resp.has_more = TRUE
    /\ "next_page" \in DOMAIN resp
    /\ resp.next_page # <<>>

C12_State ==
    /\ inFlight \in {0, 1}
    /\ inFlight = Len(requests) - Len(served)
                      - (IF failure = "page" THEN 1 ELSE 0)
    /\ \A k \in 2..Len(requests) :
          /\ k - 1 <= Len(served)
          /\ C12_Continues(served[k - 1])
          /\ requests[k] = served[k - 1].next_page
    /\ \A k \in 1..Len(served) :
          ~C12_Continues(served[k]) => Len(requests) = k

C12_IssueStep ==
    requests' # requests =>
        /\ inFlight = 0
        /\ Len(served) = Len(requests)
        /\ Len(requests') = Len(requests) + 1
        /\ failure = "none"

C12_StrictlySequential == []C12_State /\ [][C12_IssueStep]_vars

\* the second response, reached by following the first one's reference,
\* carries a reference but has_more false: the loop stopped there
C12_Witness ==
    /\ variant = "paginated"
    /\ pc = "done"
    /\ Len(serverPages) = 3
    /\ Len(requests) = 2
    /\ requests[2] = served[1].next_page
    /\ Len(served) = 2
    /\ "has_more" \in DOMAIN served[2]
    /\ served[2].has_more = FALSE
    /\ "next_page" \in DOMAIN served[2]

\* C13 (SpecTimer).  At most one interval timer exists; one exists only while
\* the component is mounted and a target release is known, and it counts
\* down to that release's prerelease date; a timer is started only for a
\* known target; after the teardown no timer is left and timeLeft is never
\* updated again; timeLeft is updated only by the one live timer.
C13_State ==
    /\ timers \in {0, 1}
    /\ timers = 1 =>
          /\ mounted
          /\ currentSet # Null
          /\ timerTarget = currentSet.released_at - 7 * 24 * 60 * 60
    /\ ~mounted => timers = 0
    /\ currentSet = Null => (timers = 0 /\ tickDiff = <<>>)

C13_Step ==
    /\ timers' > timers => (mounted' /\ currentSet' # Null /\ timers = 0)
    /\ <<timeLeft, tickDiff>>' # <<timeLeft, tickDiff>> =>
          (mounted /\ timers = 1 /\ currentSet # Null)
    /\ ~mounted => (timers' = 0 /\ timeLeft' = timeLeft /\ tickDiff' = tickDiff)

C13_ScopedTimer == []C13_State /\ [][C13_Step]_vars

\* a timer was started, ticked, and was cleared by the teardown; time has
\* passed since
C13_Witness ==
    /\ ~mounted
    /\ currentSet # Null
    /\ effectDep = currentSet
    /\ tickDiff # <<>>
    /\ timers = 0
    /\ now > timerSince + 1
    /\ tickDiff[1] > (timerTarget - now) * 1000

\* C14 (SpecSession).  currentSet changes only in the step of the startup
\* fetch that resolves the target, from null to a release of the catalog,
\* and that step happens at most once; no later step (time passing, a tick
\* at or after the prerelease date, a card fetch failure, a search, filter,
\* selection or theme event) changes it.
C14_Step ==
    currentSet' # currentSet =>
        /\ currentSet = [null |-> TRUE]
        /\ pc = "awaitSets"
        /\ resolvedAt = <<>>
        /\ resolvedAt' # <<>>
        /\ \E i \in 1..Len(catalog) : currentSet' = catalog[i]

C14_ResolvedOnce == [][C14_Step]_vars

\* the target is still the resolved release after the card fetch failed, the
\* countdown expired, and the user toggled a card and the theme
C14_Witness ==
    /\ currentSet = SetNext
    /\ failure = "none"
    /\ Len(served) = 2
    /\ served[2] = ErrorBody
    /\ tickDiff = <<0>>
    /\ timeLeft = ZeroTime
    /\ lastEvent.op = "toggle"
    /\ ~isDark

\* the dashboard is displayed with a known target whose prerelease date is at
\* least one second ahead
C15_Displayed ==
    /\ mounted
    /\ ~loading
    /\ currentSet # Null
    /\ (currentSet.released_at - 7 * 24 * 60 * 60) - now >= 1

\* C15 (Spec).  Whenever the dashboard is displayed with a known target whose
\* prerelease date is at least one second ahead, timeLeft is not {0,0,0,0};
\* stated here for the interval the claim names, after the countdown effect
\* has started the timer for the target and before its first tick is due.
C15_ZeroOnlyWhenReached ==
    (/\ C15_Displayed
     /\ timers = 1
     /\ effectDep = currentSet
     /\ now < timerSince + 1) =>
        timeLeft # [d |-> 0, h |-> 0, m |-> 0, s |-> 0]

\* The same once the timer has ticked: it holds, so the all-zero countdown
\* is shown early only until the first tick.
C15_AfterFirstTick ==
    (C15_Displayed /\ tickDiff # <<>>) =>
        timeLeft # [d |-> 0, h |-> 0, m |-> 0, s |-> 0]

====
